---- MODULE Spec2Model ----
(***************************************************************************)
(* A model of Glance: shards (bookmarks of a file region), the health      *)
(* assessor (health.py), the shard store (storage.py) and the two tools    *)
(* create_shard / view_shards (glance/server.py).                          *)
(*                                                                         *)
(* Text is modelled as a sequence of one-character strings over Alphabet.  *)
(* Scores are kept in thousandths (permille): 1.0 is 1000, 0.8 is 800.     *)
(***************************************************************************)
EXTENDS Integers, Sequences, FiniteSets, TLC

VARIABLES
    \* ---- health.py applied to drawn inputs (SpecAssess) ----
    shard,        \* the record handed to assess_shard
    current,      \* the current content handed to assess_shard, or None
    health,       \* the ShardHealth returned, NoHealth before the call
    calls,        \* the helpers the call invoked
    shardAfter,   \* the record as it stands after the call
    \* ---- the server: storage.py behind glance/server.py (Spec) ----
    disk,         \* the project's files: path -> text, or None when there is no file
    store,        \* .glance/shards.json: the list of Shard records
    now,          \* the clock datetime.now reads
    response,     \* what the tool call of the last step returned
    views,        \* per shard id, what view_shards reported since its last refresh
    \* ---- resolver.py and compute_health applied to drawn inputs ----
    call,         \* the function called and its arguments, NoCall when none is
    returned,     \* what the call returned or raised, NotReturned before it
    \* ---- storage.py called by concurrent callers (SpecConcurrent) ----
    inflight      \* per caller, the store method it runs and how far it got

assessVars == <<shard, current, health, calls, shardAfter>>
serverVars == <<disk, store, now, response, views>>
callVars == <<call, returned, inflight>>
vars == <<shard, current, health, calls, shardAfter, disk, store, now, response, views,
          call, returned, inflight>>

\* an absent Optional[str]: no text is this sequence
None == <<"None">>

\* no call of a function on drawn inputs, and the result of a call not made yet
NoCall == [fn |-> "none"]

\* the callers of the store, and none of them in a method of it
Callers == {1, 2}
Idle == [op |-> "none", shard_id |-> 0, pc |-> "done", shards |-> <<>>]
NoneInflight == [p \in Callers |-> Idle]
NoError == ""
NotReturned == [done |-> FALSE, raised |-> NoError, value |-> 0]
Returned(value) == [done |-> TRUE, raised |-> NoError, value |-> value]
Raised(exception) == [done |-> TRUE, raised |-> exception, value |-> 0]

\* ------------------------------------------------------------------ bounds

MaxLen == 3            \* longest drawn text, in characters
MaxStaleViews == 3     \* largest drawn stale_views of a record
DigestSpace == 251     \* number of distinct fingerprints in the model
MaxClock == 1          \* latest reading of the clock
MaxLines == 3          \* most lines of a drawn short file
LongLines == 55        \* lines of a drawn long file

Alphabet == {"a", "b", " ", "\n"}

\* ------------------------------------------------------------------ text

RECURSIVE SeqsUpTo(_, _)
SeqsUpTo(S, n) ==
    IF n = 0 THEN {<<>>}
    ELSE LET shorter == SeqsUpTo(S, n - 1)
         IN  shorter \cup {Append(s, c) : s \in {t \in shorter : Len(t) = n - 1}, c \in S}

Texts == SeqsUpTo(Alphabet, MaxLen)

\* the characters \s matches and str.strip() strips
Whitespace == {" ", "\n"}

IsSpace(c) == c \in Whitespace

\* the fields of left followed by those of right, the last field of left and
\* the first of right being one field
JoinFields(left, right) ==
    SubSeq(left, 1, Len(left) - 1) \o <<left[Len(left)] \o right[1]>> \o Tail(right)

\* the fields of s between its line breaks (one more than it has line breaks),
\* computed by halves to keep the recursion shallow on long texts
RECURSIVE Fields(_)
Fields(s) ==
    IF s = <<>> THEN <<<<>>>>
    ELSE IF Len(s) = 1 THEN (IF s[1] = "\n" THEN <<<<>>, <<>>>> ELSE <<s>>)
    ELSE JoinFields(Fields(SubSeq(s, 1, Len(s) \div 2)),
                    Fields(SubSeq(s, Len(s) \div 2 + 1, Len(s))))

\* str.splitlines(): a trailing line break does not open a last empty line
SplitLines(s) ==
    IF s = <<>> THEN <<>>
    ELSE IF s[Len(s)] = "\n" THEN SubSeq(Fields(s), 1, Len(Fields(s)) - 1)
    ELSE Fields(s)

\* str.lstrip() / str.strip()
LStrip(s) ==
    LET keep == {i \in 1..Len(s) : ~IsSpace(s[i])}
    IN  IF keep = {} THEN <<>>
        ELSE SubSeq(s, CHOOSE k \in keep : \A m \in keep : k <= m, Len(s))

Strip(s) ==
    LET keep == {i \in 1..Len(s) : ~IsSpace(s[i])}
    IN  IF keep = {} THEN <<>>
        ELSE SubSeq(s, CHOOSE k \in keep : \A m \in keep : k <= m,
                       CHOOSE k \in keep : \A m \in keep : k >= m)

\* "\n".join(lines)
RECURSIVE JoinLines(_)
JoinLines(lines) ==
    IF lines = <<>> THEN <<>>
    ELSE IF Len(lines) = 1 THEN lines[1]
    ELSE JoinLines(SubSeq(lines, 1, Len(lines) \div 2)) \o <<"\n">>
             \o JoinLines(SubSeq(lines, Len(lines) \div 2 + 1, Len(lines)))

NonBlank(line) == Strip(line) # <<>>

\* blank lines are kept
_normalize_keeps_blank(text) ==
    LET lines == SplitLines(text)
    IN  JoinLines([i \in 1..Len(lines) |-> Strip(lines[i])])

_normalize(text) ==
    LET lines == SplitLines(text)
        kept == SelectSeq(lines, NonBlank)
    IN  JoinLines([i \in 1..Len(kept) |-> Strip(kept[i])])

\* ------------------------------------------------- difflib.SequenceMatcher

\* length of the common run of a[i..] and b[j..] inside the windows (1-indexed,
\* ahi and bhi inclusive)
RECURSIVE CommonRun(_, _, _, _, _, _)
CommonRun(a, b, i, j, ahi, bhi) ==
    IF i > ahi \/ j > bhi \/ a[i] # b[j] THEN 0
    ELSE 1 + CommonRun(a, b, i + 1, j + 1, ahi, bhi)

\* find_longest_match: the longest block, earliest in a, then earliest in b
find_longest_match(a, b, alo, ahi, blo, bhi) ==
    LET cand == {<<i, j, CommonRun(a, b, i, j, ahi, bhi)>> : i \in alo..ahi, j \in blo..bhi}
        hits == {c \in cand : c[3] > 0}
    IN  IF hits = {} THEN <<alo, blo, 0>>
        ELSE CHOOSE c \in hits :
                \A d \in hits :
                    \/ c[3] > d[3]
                    \/ c[3] = d[3] /\ c[1] < d[1]
                    \/ c[3] = d[3] /\ c[1] = d[1] /\ c[2] <= d[2]

\* get_matching_blocks, summed: the number of matched characters
RECURSIVE MatchedChars(_, _, _, _, _, _)
MatchedChars(a, b, alo, ahi, blo, bhi) ==
    IF alo > ahi \/ blo > bhi THEN 0
    ELSE LET m == find_longest_match(a, b, alo, ahi, blo, bhi)
         IN  IF m[3] = 0 THEN 0
             ELSE m[3] + MatchedChars(a, b, alo, m[1] - 1, blo, m[2] - 1)
                       + MatchedChars(a, b, m[1] + m[3], ahi, m[2] + m[3], bhi)

\* round(SequenceMatcher(None, a, b).ratio(), 3) in thousandths.  No tie of the
\* rounding exists while Len(a) + Len(b) < 32.
Ratio(a, b) ==
    LET t == Len(a) + Len(b)
        m == MatchedChars(a, b, 1, Len(a), 1, Len(b))
    IN  IF t = 0 THEN 1000 ELSE (4000 * m + t) \div (2 * t)

\* ---------------------------------------------------------------- health.py

HEALTHY_THRESHOLD == 800
STALE_THRESHOLD == 400
MAX_STALE_VIEWS == 2

\* the emptiness check comes before the identity check
compute_health_empty_first(original, cur) ==
    IF original = <<>> \/ cur = <<>> THEN 0
    ELSE IF original = cur THEN 1000
    ELSE IF _normalize(original) = _normalize(cur) THEN 990
    ELSE Ratio(_normalize(original), _normalize(cur))

compute_health(original, cur) ==
    IF original = cur THEN 1000
    ELSE IF original = <<>> \/ cur = <<>> THEN 0
    ELSE IF _normalize(original) = _normalize(cur) THEN 990
    ELSE Ratio(_normalize(original), _normalize(cur))

Letters == <<"a", "b", "c", "d", "e", "f", "g", "h", "i", "j", "k", "l", "m",
            "n", "o", "p", "q", "r", "s", "t", "u", "v", "w", "x", "y", "z">>

\* ord() of the characters the model's texts are written in
Ord(c) ==
    IF \E i \in 1..Len(Letters) : Letters[i] = c
    THEN 96 + CHOOSE i \in 1..Len(Letters) : Letters[i] = c
    ELSE CASE c = "\n" -> 10 [] c = " " -> 32 [] c = "(" -> 40 [] c = ")" -> 41
           [] c = ":" -> 58 [] c = "<" -> 60 [] c = ">" -> 62 [] c = "[" -> 91
           [] c = "]" -> 93 [] c = "_" -> 95 [] OTHER -> 63

\* Shard.hash_content: a digest of fixed width, so distinct texts can share one
RECURSIVE hash_content(_)
hash_content(content) ==
    IF content = <<>> THEN 1 % DigestSpace
    ELSE (31 * hash_content(SubSeq(content, 1, Len(content) - 1))
             + Ord(content[Len(content)])) % DigestSpace

\* class ShardHealth; views_left is the k of the message "Will be deleted after
\* k more view(s)", 0 when the message names none
ShardHealth(score, status, views_left) ==
    [score |-> score, status |-> status, views_left |-> views_left]

\* no verdict yet
NoHealth == ShardHealth(0, "none", 0)

\* a healthy threshold that is exclusive
classify_strict(score, stale_views) ==
    IF score > HEALTHY_THRESHOLD THEN ShardHealth(score, "healthy", 0)
    ELSE IF score >= STALE_THRESHOLD THEN ShardHealth(score, "degraded", 0)
    ELSE LET views_left == MAX_STALE_VIEWS - stale_views
         IN  IF views_left <= 0 THEN ShardHealth(score, "expired", 0)
             ELSE ShardHealth(score, "stale", views_left)

\* an expiry that comes one view late
classify_late(score, stale_views) ==
    IF score >= HEALTHY_THRESHOLD THEN ShardHealth(score, "healthy", 0)
    ELSE IF score >= STALE_THRESHOLD THEN ShardHealth(score, "degraded", 0)
    ELSE LET views_left == MAX_STALE_VIEWS - stale_views
         IN  IF views_left < 0 THEN ShardHealth(score, "expired", 0)
             ELSE ShardHealth(score, "stale", views_left)

\* assess_shard from the score on: the thresholds and the stale countdown
classify(score, stale_views) ==
    IF score >= HEALTHY_THRESHOLD THEN ShardHealth(score, "healthy", 0)
    ELSE IF score >= STALE_THRESHOLD THEN ShardHealth(score, "degraded", 0)
    ELSE LET views_left == MAX_STALE_VIEWS - stale_views
         IN  IF views_left <= 0 THEN ShardHealth(score, "expired", 0)
             ELSE ShardHealth(score, "stale", views_left)

\* One call of assess_shard: the ShardHealth returned, the helpers the call
\* invoked (in order), and the record as the call leaves it.
Assessed(h, called, s) == [health |-> h, calls |-> called, shard |-> s]

\* absent content is scored like any other content
assess_shard_scores_absent(s, current_content) ==
    IF current_content # None /\ hash_content(current_content) = s.original_hash
    THEN Assessed(ShardHealth(1000, "healthy", 0), <<"hash_content">>, s)
    ELSE Assessed(classify(compute_health(s.original_content,
                                          IF current_content = None THEN <<>> ELSE current_content),
                           s.stale_views),
                  <<"hash_content", "compute_health">>, s)

\* no short cut on an equal fingerprint
assess_shard_no_shortcut(s, current_content) ==
    IF current_content = None
    THEN Assessed(ShardHealth(0, "broken", 0), <<>>, s)
    ELSE Assessed(classify(compute_health(s.original_content, current_content), s.stale_views),
                  <<"hash_content", "compute_health">>, s)

\* the assessor counts the stale view itself
assess_shard_counts(s, current_content) ==
    IF current_content = None
    THEN Assessed(ShardHealth(0, "broken", 0), <<>>, s)
    ELSE IF hash_content(current_content) = s.original_hash
    THEN Assessed(ShardHealth(1000, "healthy", 0), <<"hash_content">>, s)
    ELSE LET h == classify(compute_health(s.original_content, current_content), s.stale_views)
         IN  Assessed(h, <<"hash_content", "compute_health">>,
                      IF h.status = "stale"
                      THEN [s EXCEPT !.stale_views = s.stale_views + 1] ELSE s)

assess_shard(s, current_content) ==
    IF current_content = None
    THEN Assessed(ShardHealth(0, "broken", 0), <<>>, s)
    ELSE IF hash_content(current_content) = s.original_hash
    THEN Assessed(ShardHealth(1000, "healthy", 0), <<"hash_content">>, s)
    ELSE Assessed(classify(compute_health(s.original_content, current_content), s.stale_views),
                  <<"hash_content", "compute_health">>, s)

\* a deletion that is not flagged when the shard is broken
should_flag_deletion_drift(h) == h.status \in {"stale", "expired"}

should_show_summary(h) == h.status = "healthy"
should_flag_deletion(h) == h.status \in {"stale", "expired", "broken"}

\* an expired shard that is kept
should_delete_broken(h) == h.status = "broken"

should_delete(h) == h.status \in {"expired", "broken"}

\* -------------------------------------------------------------- resolver.py

\* an absent Optional[int]
NoLine == -1

\* the characters \w and \s match, among those the model's texts are written in
WordChars == {"a", "b", "c", "d", "e", "f", "g", "h", "i", "j", "k", "l", "m",
              "n", "o", "p", "q", "r", "s", "t", "u", "v", "w", "x", "y", "z", "_"}
TypeChars == WordChars \cup {"<", ">", "[", "]"}

\* line[i..] starts with lit
HasLit(line, i, lit) ==
    /\ i + Len(lit) - 1 <= Len(line)
    /\ SubSeq(line, i, i + Len(lit) - 1) = lit

\* the first position >= i of line that holds no character of S (Len(line) + 1 if none)
RECURSIVE SkipWhile(_, _, _)
SkipWhile(line, i, S) ==
    IF i > Len(line) \/ line[i] \notin S THEN i ELSE SkipWhile(line, i + 1, S)

kw_async == <<"a", "s", "y", "n", "c">>
kw_def == <<"d", "e", "f">>
kw_export == <<"e", "x", "p", "o", "r", "t">>
kw_function == <<"f", "u", "n", "c", "t", "i", "o", "n">>
kw_pub == <<"p", "u", "b">>
kw_fn == <<"f", "n">>
kw_func == <<"f", "u", "n", "c">>
Modifiers == {<<"p", "u", "b", "l", "i", "c">>, <<"p", "r", "i", "v", "a", "t", "e">>,
              <<"p", "r", "o", "t", "e", "c", "t", "e", "d">>, <<"s", "t", "a", "t", "i", "c">>}

\* (kw\s+)? at i: the position after it when it is there, else i
OptKeyword(line, i, kw) ==
    IF HasLit(line, i, kw) /\ SkipWhile(line, i + Len(kw), Whitespace) > i + Len(kw)
    THEN SkipWhile(line, i + Len(kw), Whitespace)
    ELSE i

\* kw\s+(\w+)\s*[closers] at i: the name, or None
KeywordName(line, i, kw, closers) ==
    IF ~HasLit(line, i, kw) THEN None
    ELSE LET n0 == SkipWhile(line, i + Len(kw), Whitespace)
             n1 == SkipWhile(line, n0, WordChars)
             c  == SkipWhile(line, n1, Whitespace)
         IN  IF n0 > i + Len(kw) /\ n1 > n0 /\ c <= Len(line) /\ line[c] \in closers
             THEN SubSeq(line, n0, n1 - 1)
             ELSE None

\* line[lo..hi] is a run of (public|private|protected|static|\s)
RECURSIVE ModifierRun(_, _, _)
ModifierRun(line, lo, hi) ==
    IF lo > hi THEN TRUE
    ELSE \/ line[lo] \in Whitespace /\ ModifierRun(line, lo + 1, hi)
         \/ \E m \in Modifiers :
                /\ lo + Len(m) - 1 <= hi
                /\ HasLit(line, lo, m)
                /\ ModifierRun(line, lo + Len(m), hi)

\* ^\s*(public|private|protected|static|\s)+[\w<>\[\]]+\s+(\w+)\s*\(
\* the name is the word before the first "(", the type the run before it, and
\* what precedes the type a non-empty run of modifiers and whitespace
JavaName(line) ==
    LET parens == {i \in 1..Len(line) : line[i] = "("}
    IN  IF parens = {} THEN None
        ELSE LET q  == CHOOSE i \in parens : \A j \in parens : i <= j
                 \* name = line[n0..n1], after whitespace line[w0..n0-1], after the type
                 nends == {i \in 1..(q - 1) : line[i] \notin Whitespace}
             IN  IF nends = {} THEN None
                 ELSE LET n1 == CHOOSE i \in nends : \A j \in nends : i >= j
                          nbad == {i \in 1..n1 : line[i] \notin WordChars}
                          n0 == IF nbad = {} THEN 1
                                ELSE 1 + CHOOSE i \in nbad : \A j \in nbad : i >= j
                          wbad == {i \in 1..(n0 - 1) : line[i] \notin Whitespace}
                          t1 == IF wbad = {} THEN 0
                                ELSE CHOOSE i \in wbad : \A j \in wbad : i >= j
                          tbad == {i \in 1..t1 : line[i] \notin TypeChars}
                          t0 == IF tbad = {} THEN 1
                                ELSE 1 + CHOOSE i \in tbad : \A j \in tbad : i >= j
                      IN  IF /\ n0 <= n1
                             /\ t1 >= 1 /\ t1 < n0 - 1
                             /\ t0 <= t1
                             /\ \E p \in (t0 - 1)..(t1 - 1) :
                                    p >= 1 /\ ModifierRun(line, 1, p)
                          THEN SubSeq(line, n0, n1)
                          ELSE None

\* FUNC_PATTERNS, tried in order; the name is the last group that is not blank
detect_function_name(line) ==
    LET i0 == SkipWhile(line, 1, Whitespace)
        py == KeywordName(line, OptKeyword(line, i0, kw_async), kw_def, {"("})
        js == KeywordName(line, OptKeyword(line, OptKeyword(line, i0, kw_export), kw_async),
                          kw_function, {"("})
        rs == KeywordName(line, OptKeyword(line, OptKeyword(line, i0, kw_pub), kw_async),
                          kw_fn, {"(", "<"})
        jv == JavaName(line)
        go == KeywordName(line, i0, kw_func, {"("})
    IN  IF py # None THEN py
        ELSE IF js # None THEN js
        ELSE IF rs # None THEN rs
        ELSE IF jv # None THEN jv
        ELSE go

\* text in line
Contains(line, text) ==
    \E i \in 1..(Len(line) + 1) : HasLit(line, i, text)

\* the last line that holds the text, not the first
find_text_in_lines_last(lines, text, start_from) ==
    LET text_stripped == Strip(text)
        hits == {i \in start_from..(Len(lines) - 1) :
                    \/ Contains(Strip(lines[i + 1]), text_stripped)
                    \/ Contains(lines[i + 1], text_stripped)}
    IN  IF hits = {} THEN NoLine ELSE CHOOSE i \in hits : \A j \in hits : i >= j

\* find_text_in_lines: 0-indexed line, or NoLine
find_text_in_lines(lines, text, start_from) ==
    LET text_stripped == Strip(text)
        hits == {i \in start_from..(Len(lines) - 1) :
                    \/ Contains(Strip(lines[i + 1]), text_stripped)
                    \/ Contains(lines[i + 1], text_stripped)}
    IN  IF hits = {} THEN NoLine ELSE CHOOSE i \in hits : \A j \in hits : i <= j

\* the last definition of that name, not the first
find_function_by_name_last(lines, func_name) ==
    LET hits == {i \in 0..(Len(lines) - 1) : detect_function_name(lines[i + 1]) = func_name}
    IN  IF hits = {} THEN NoLine ELSE CHOOSE i \in hits : \A j \in hits : i >= j

\* find_function_by_name: 0-indexed line, or NoLine
find_function_by_name(lines, func_name) ==
    LET hits == {i \in 0..(Len(lines) - 1) : detect_function_name(lines[i + 1]) = func_name}
    IN  IF hits = {} THEN NoLine ELSE CHOOSE i \in hits : \A j \in hits : i <= j

Min(x, y) == IF x <= y THEN x ELSE y
Max(x, y) == IF x >= y THEN x ELSE y

Indent(line) == Len(line) - Len(LStrip(line))

BLOCK_SCAN == 200
BLOCK_DEFAULT == 50
WINDOW == 20
HINT_BACK == 5

\* the block ends on the line that closes it, not on the line before
_find_block_end_inclusive(lines, start_idx) ==
    IF start_idx >= Len(lines) THEN NoLine
    ELSE IF detect_function_name(lines[start_idx + 1]) = None THEN NoLine
    ELSE LET start_indent == Indent(lines[start_idx + 1])
             ends == {i \in (start_idx + 1)..(Min(start_idx + BLOCK_SCAN, Len(lines)) - 1) :
                         /\ Strip(lines[i + 1]) # <<>>
                         /\ Indent(lines[i + 1]) <= start_indent}
         IN  IF ends # {} THEN CHOOSE i \in ends : \A j \in ends : i <= j
             ELSE Min(start_idx + BLOCK_DEFAULT, Len(lines) - 1)

\* _find_block_end: 0-indexed line, or NoLine
_find_block_end(lines, start_idx) ==
    IF start_idx >= Len(lines) THEN NoLine
    ELSE IF detect_function_name(lines[start_idx + 1]) = None THEN NoLine
    ELSE LET start_indent == Indent(lines[start_idx + 1])
             ends == {i \in (start_idx + 1)..(Min(start_idx + BLOCK_SCAN, Len(lines)) - 1) :
                         /\ Strip(lines[i + 1]) # <<>>
                         /\ Indent(lines[i + 1]) <= start_indent}
         IN  IF ends # {} THEN (CHOOSE i \in ends : \A j \in ends : i <= j) - 1
             ELSE Min(start_idx + BLOCK_DEFAULT, Len(lines) - 1)

ResolvedRegion(content, start_line, end_line, function_anchor) ==
    [content |-> content, start_line |-> start_line, end_line |-> end_line,
     function_anchor |-> function_anchor]

\* no region (resolve_region returned None)
NoRegion == ResolvedRegion(None, 0, 0, None)

\* the start falls one line before the lines searched near the function
hint_start_far(lines, from_text, func_line, near) ==
    IF func_line = NoLine THEN NoLine
    ELSE IF near # NoLine THEN near
    ELSE Max(0, func_line - HINT_BACK - 1)

\* resolve_region, step 2: the start when from_text is on no line but the
\* function is on line func_line
hint_start(lines, from_text, func_line, near) ==
    IF func_line = NoLine THEN NoLine
    ELSE IF near # NoLine THEN near
    ELSE func_line

\* step 2 is left out: the function anchor is never looked for
start_from_direct(lines, from_text, function_anchor, direct) ==
    direct

\* resolve_region, steps 1 and 2: the start line (0-indexed), or NoLine
start_from(lines, from_text, function_anchor, direct) ==
    IF direct # NoLine THEN direct
    ELSE IF function_anchor = None \/ function_anchor = <<>> THEN NoLine
    ELSE hint_start(lines, from_text, find_function_by_name(lines, function_anchor),
                    find_text_in_lines(lines, from_text,
                        Max(0, find_function_by_name(lines, function_anchor) - HINT_BACK)))

\* resolve_region, step 3: the end line (0-indexed) given what the search for
\* to_text found
end_from(lines, start_idx, found) ==
    IF found # NoLine THEN found ELSE _find_block_end(lines, start_idx)

\* the window is one line short
end_or_window_short(lines, start_idx, end_idx) ==
    IF end_idx = NoLine \/ end_idx < start_idx
    THEN Min(start_idx + WINDOW - 1, Len(lines) - 1)
    ELSE end_idx

\* the last resort: 20 lines from the start
end_or_window(lines, start_idx, end_idx) ==
    IF end_idx = NoLine \/ end_idx < start_idx
    THEN Min(start_idx + WINDOW, Len(lines) - 1)
    ELSE end_idx

\* the slice leaves the end line out
extract_exclusive(lines, start_idx, end_idx, function_anchor) ==
    ResolvedRegion(JoinLines(SubSeq(lines, start_idx + 1, end_idx)),
                   start_idx + 1, end_idx + 1,
                   IF function_anchor # None /\ function_anchor # <<>>
                   THEN function_anchor
                   ELSE detect_function_name(lines[start_idx + 1]))

\* the anchor is always the detected name of the start line
extract_detected(lines, start_idx, end_idx, function_anchor) ==
    ResolvedRegion(JoinLines(SubSeq(lines, start_idx + 1, end_idx + 1)),
                   start_idx + 1, end_idx + 1,
                   detect_function_name(lines[start_idx + 1]))

\* resolve_region, step 4
extract(lines, start_idx, end_idx, function_anchor) ==
    ResolvedRegion(JoinLines(SubSeq(lines, start_idx + 1, end_idx + 1)),
                   start_idx + 1, end_idx + 1,
                   IF function_anchor # None /\ function_anchor # <<>>
                   THEN function_anchor
                   ELSE detect_function_name(lines[start_idx + 1]))

\* the search for to_text starts at the top of the file
resolve_from_top(lines, to_text, function_anchor, start_idx) ==
    IF start_idx = NoLine THEN NoRegion
    ELSE extract(lines, start_idx,
                 end_or_window(lines, start_idx,
                     end_from(lines, start_idx, find_text_in_lines(lines, to_text, 0))),
                 function_anchor)

resolve_from(lines, to_text, function_anchor, start_idx) ==
    IF start_idx = NoLine THEN NoRegion
    ELSE extract(lines, start_idx,
                 end_or_window(lines, start_idx,
                     end_from(lines, start_idx, find_text_in_lines(lines, to_text, start_idx))),
                 function_anchor)

resolve_lines(lines, from_text, to_text, function_anchor) ==
    IF lines = <<>> THEN NoRegion
    ELSE resolve_from(lines, to_text, function_anchor,
                      start_from(lines, from_text, function_anchor,
                                 find_text_in_lines(lines, from_text, 0)))

\* resolve_region from the text read on: content is the file's text
resolve_text(content, from_text, to_text, function_anchor) ==
    resolve_lines(SplitLines(content), from_text, to_text, function_anchor)

\* ---------------------------------------------------- models.py, storage.py

NoTime == -1

ShardAnchor(from_text, to_text, function_anchor, start_line, end_line) ==
    [from_text |-> from_text, to_text |-> to_text, function_anchor |-> function_anchor,
     start_line |-> start_line, end_line |-> end_line]

\* Shard.matches_region
matches_region(s, file, from_text) ==
    s.file = file /\ s.anchor.from_text = from_text

Ids(shards) == {shards[i].id : i \in 1..Len(shards)}

\* uuid4().hex[:12]: an id no stored shard has
NewId(shards) == CHOOSE n \in 1..(Len(shards) + 1) : n \notin Ids(shards)

\* an upsert that never looks for the key
upsert_appends(shards, new, t) ==
    [shards |-> Append(shards, new), shard |-> new, was_update |-> FALSE]

\* the refreshed shard keeps the old original_hash
upsert_keeps_hash(shards, new, t) ==
    LET hits == {i \in 1..Len(shards) :
                    matches_region(shards[i], new.file, new.anchor.from_text)}
    IN  IF hits # {}
        THEN LET i == CHOOSE k \in hits : \A m \in hits : k <= m
                 merged == [new EXCEPT !.id = shards[i].id,
                                       !.created_at = shards[i].created_at,
                                       !.updated_at = t,
                                       !.original_hash = shards[i].original_hash,
                                       !.stale_views = 0]
             IN  [shards |-> [shards EXCEPT ![i] = merged], shard |-> merged,
                  was_update |-> TRUE]
        ELSE [shards |-> Append(shards, new), shard |-> new, was_update |-> FALSE]

\* the refreshed shard keeps the old stale_views
upsert_keeps_stale(shards, new, t) ==
    LET hits == {i \in 1..Len(shards) :
                    matches_region(shards[i], new.file, new.anchor.from_text)}
    IN  IF hits # {}
        THEN LET i == CHOOSE k \in hits : \A m \in hits : k <= m
                 merged == [new EXCEPT !.id = shards[i].id,
                                       !.created_at = shards[i].created_at,
                                       !.updated_at = t,
                                       !.stale_views = shards[i].stale_views]
             IN  [shards |-> [shards EXCEPT ![i] = merged], shard |-> merged,
                  was_update |-> TRUE]
        ELSE [shards |-> Append(shards, new), shard |-> new, was_update |-> FALSE]

\* ShardStore.upsert, t the clock's reading: the new list, the shard stored, was_update
upsert(shards, new, t) ==
    LET hits == {i \in 1..Len(shards) :
                    matches_region(shards[i], new.file, new.anchor.from_text)}
    IN  IF hits # {}
        THEN LET i == CHOOSE k \in hits : \A m \in hits : k <= m
                 merged == [new EXCEPT !.id = shards[i].id,
                                       !.created_at = shards[i].created_at,
                                       !.updated_at = t,
                                       !.stale_views = 0]
             IN  [shards |-> [shards EXCEPT ![i] = merged], shard |-> merged,
                  was_update |-> TRUE]
        ELSE [shards |-> Append(shards, new), shard |-> new, was_update |-> FALSE]

\* ShardStore.get_by_tags
get_by_tags(shards, tags) ==
    IF tags = <<>> THEN shards
    ELSE LET Tagged(s) == \E i \in 1..Len(tags), j \in 1..Len(s.tags) : tags[i] = s.tags[j]
         IN  SelectSeq(shards, Tagged)

\* ShardStore.get_by_file
get_by_file(shards, file) ==
    LET InFile(s) == s.file = file
    IN  SelectSeq(shards, InFile)

\* every stale view counts twice
increment_stale_views_twice(shards, shard_id) ==
    LET hits == {i \in 1..Len(shards) : shards[i].id = shard_id}
    IN  IF hits = {} THEN shards
        ELSE LET i == CHOOSE k \in hits : \A m \in hits : k <= m
             IN  [shards EXCEPT ![i].stale_views = @ + 2]

\* ShardStore.increment_stale_views
increment_stale_views(shards, shard_id) ==
    LET hits == {i \in 1..Len(shards) : shards[i].id = shard_id}
    IN  IF hits = {} THEN shards
        ELSE LET i == CHOOSE k \in hits : \A m \in hits : k <= m
             IN  [shards EXCEPT ![i].stale_views = @ + 1]

\* ShardStore.delete: the new list, and whether a shard went
delete(shards, shard_id) ==
    LET Kept(s) == s.id # shard_id
    IN  [shards |-> SelectSeq(shards, Kept),
         deleted |-> Len(SelectSeq(shards, Kept)) < Len(shards)]

\* a delete_many that removes nothing
delete_many_none(shards, shard_ids) == shards

\* ShardStore.delete_many
delete_many(shards, shard_ids) ==
    LET Kept(s) == s.id \notin shard_ids
    IN  SelectSeq(shards, Kept)

\* ShardStore.update_last_viewed
update_last_viewed(shards, shard_ids, t) ==
    [i \in 1..Len(shards) |->
        IF shards[i].id \in shard_ids THEN [shards[i] EXCEPT !.last_viewed = t]
        ELSE shards[i]]

\* ------------------------------------------------------- glance/server.py

Root == "/r/"
DiskPaths == {"/r/a.py"}

\* _resolve_file_path: an absolute path is itself, a relative one is under the root
_resolve_file_path(file) ==
    CASE file = "a.py" -> "/r/a.py"
      [] OTHER -> file

\* resolve_region: no file and an empty file resolve to nothing
resolve_region(file_path, from_text, to_text, function_anchor) ==
    IF file_path \notin DOMAIN disk \/ disk[file_path] = None THEN NoRegion
    ELSE resolve_text(disk[file_path], from_text, to_text, function_anchor)

Response(kind, shard_id, entries) ==
    [kind |-> kind, shard_id |-> shard_id, entries |-> entries]

NoResponse == Response("none", 0, <<>>)

\* the texts a project file holds
FileTexts == {
    <<"a", "b">>,
    <<"a", "c">>,
    <<"a", "x", "x", "x">> }

\* the files create_shard is called with
CreateFiles == {"a.py"}

\* the arguments create_shard is called with, but for the file
CreateArgs == {
    [from_text |-> <<"a">>, to_text |-> <<"b">>, tags |-> <<"t">>, summary |-> None],
    [from_text |-> <<"a">>, to_text |-> <<"c">>, tags |-> <<"t", "u">>, summary |-> <<"s">>],
    [from_text |-> <<"b">>, to_text |-> <<"b">>, tags |-> <<"u">>, summary |-> None] }

\* the keys a stored shard can have, and the ids: a store holds one shard a key
Keys == {<<f, a.from_text>> : f \in CreateFiles, a \in CreateArgs}
IdSpace == 1..Cardinality(Keys)

\* no file given: None and "" are the same to view_shards
NoFile == ""

NoLimit == -1
DEFAULT_LIMIT == 50

\* the arguments view_shards is called with
ViewArgs == {
    [tags |-> <<>>, file |-> NoFile, limit |-> NoLimit, offset |-> 0],
    [tags |-> <<"t">>, file |-> NoFile, limit |-> NoLimit, offset |-> 0],
    [tags |-> <<"t">>, file |-> "/r/a.py", limit |-> NoLimit, offset |-> 0],
    [tags |-> <<>>, file |-> "a.py", limit |-> NoLimit, offset |-> 0],
    [tags |-> <<>>, file |-> "a.py", limit |-> 1, offset |-> 0],
    [tags |-> <<>>, file |-> "a.py", limit |-> NoLimit, offset |-> 1] }

\* nothing reported of a shard yet
\*   stale: views that classified it stale;  run: those of them in a row up to now
\*   k: the countdown the first stale report of the run announced, 0 when none stands
\*   later: the views with drift below 0.4 after that report
\*   said: the countdown the latest stale report announced
NoViews == [stale |-> 0, run |-> 0, k |-> 0, later |-> 0, said |-> 0]

\* what is reported of the stored shards: of a deleted shard nothing is kept
\* beyond the call that deleted it
Stored(v) == [id \in IdSpace |-> IF id \in Ids(store) THEN v[id] ELSE NoViews]

Init ==
    /\ disk \in [DiskPaths -> FileTexts \cup {None}]
    /\ store = <<>>
    /\ now = 0
    /\ response = NoResponse
    /\ views = [id \in IdSpace |-> NoViews]
    /\ call = NoCall
    /\ returned = NotReturned
    /\ inflight = NoneInflight
    /\ shard = [original_content |-> <<>>, original_hash |-> 0, stale_views |-> 0]
    /\ current = None
    /\ health = NoHealth
    /\ calls = <<>>
    /\ shardAfter = shard

\* a file of the project is written, or removed
EditFile(path, text) ==
    /\ disk' = [disk EXCEPT ![path] = text]
    /\ response' = NoResponse
    /\ views' = Stored(views)
    /\ UNCHANGED <<store, now>>
    /\ UNCHANGED assessVars
    /\ UNCHANGED callVars

\* time passes
Tick ==
    /\ now < MaxClock
    /\ now' = now + 1
    /\ response' = NoResponse
    /\ views' = Stored(views)
    /\ UNCHANGED <<disk, store>>
    /\ UNCHANGED assessVars
    /\ UNCHANGED callVars

\* Shard(...) as create_shard builds it from the resolved region
new_shard(file, from_text, to_text, tags, summary, region) ==
    [id |-> NewId(store),
     file |-> file,
     anchor |-> ShardAnchor(from_text, to_text, region.function_anchor,
                            region.start_line, region.end_line),
     original_content |-> region.content,
     original_hash |-> hash_content(region.content),
     summary |-> summary,
     tags |-> tags,
     created_at |-> now,
     updated_at |-> now,
     last_viewed |-> NoTime,
     stale_views |-> 0]

\* create_shard from store.upsert on: r is what upsert returned
create_stored(r) ==
    /\ response' = Response(IF r.was_update THEN "updated" ELSE "created", r.shard.id, <<>>)
    /\ store' = r.shards
    /\ views' = [Stored(views) EXCEPT ![r.shard.id] = NoViews]

\* create_shard from the resolved region on
create_resolved(file, from_text, to_text, tags, summary, region) ==
    IF disk[_resolve_file_path(file)] = None \/ region = NoRegion
    THEN /\ response' = Response("error", 0, <<>>)
         /\ views' = Stored(views)
         /\ store' = store
    ELSE create_stored(upsert(store, new_shard(file, from_text, to_text, tags, summary, region),
                              now))

create_shard(file, from_text, to_text, tags, summary) ==
    /\ create_resolved(file, from_text, to_text, tags, summary,
                       resolve_region(_resolve_file_path(file), from_text, to_text, None))
    /\ UNCHANGED <<disk, now>>
    /\ UNCHANGED assessVars
    /\ UNCHANGED callVars

\* list.sort(key=created_at): stable
RECURSIVE SortByCreated(_)
SortByCreated(shards) ==
    IF Len(shards) <= 1 THEN shards
    ELSE LET rest == SortByCreated(Tail(shards))
             h == Head(shards)
             before == {i \in 1..Len(rest) : rest[i].created_at < h.created_at}
             k == IF before = {} THEN 0 ELSE CHOOSE i \in before : \A j \in before : i >= j
         IN  SubSeq(rest, 1, k) \o <<h>> \o SubSeq(rest, k + 1, Len(rest))

\* shards[offset : offset + limit]
Page(shards, offset, limit) ==
    SubSeq(shards, offset + 1, Min(offset + limit, Len(shards)))

\* the flag is tested before the deletion: an expired shard is counted again
ViewOne_flags_first(s, h, acc) ==
    IF should_flag_deletion(h) /\ h.status # "broken"
    THEN [shards |-> increment_stale_views(acc.shards, s.id),
          entries |-> Append(acc.entries, [shard_id |-> s.id, health |-> h]),
          to_delete_now |-> acc.to_delete_now]
    ELSE IF should_delete(h)
    THEN [shards |-> acc.shards,
          entries |-> Append(acc.entries, [shard_id |-> s.id, health |-> h]),
          to_delete_now |-> acc.to_delete_now \cup {s.id}]
    ELSE [shards |-> acc.shards,
          entries |-> Append(acc.entries, [shard_id |-> s.id, health |-> h]),
          to_delete_now |-> acc.to_delete_now]

\* one pass of the loop of view_shards: the shard s was assessed as h; acc
\* holds the stored list, the entries and to_delete_now as the passes before
\* left them
ViewOne(s, h, acc) ==
    IF should_delete(h)
    THEN [shards |-> acc.shards,
          entries |-> Append(acc.entries, [shard_id |-> s.id, health |-> h]),
          to_delete_now |-> acc.to_delete_now \cup {s.id}]
    ELSE IF should_flag_deletion(h)
    THEN [shards |-> increment_stale_views(acc.shards, s.id),
          entries |-> Append(acc.entries, [shard_id |-> s.id, health |-> h]),
          to_delete_now |-> acc.to_delete_now]
    ELSE [shards |-> acc.shards,
          entries |-> Append(acc.entries, [shard_id |-> s.id, health |-> h]),
          to_delete_now |-> acc.to_delete_now]

\* the region a stored shard resolves to now
resolve_shard(s) ==
    resolve_region(_resolve_file_path(s.file), s.anchor.from_text, s.anchor.to_text,
                   s.anchor.function_anchor)

\* the loop of view_shards over the first n shards of the page
RECURSIVE ViewLoop(_, _)
ViewLoop(page, n) ==
    IF n = 0 THEN [shards |-> store, entries |-> <<>>, to_delete_now |-> {}]
    ELSE ViewOne(page[n], assess_shard(page[n], resolve_shard(page[n]).content).health,
                 ViewLoop(page, n - 1))

\* what a view that reports h of a shard adds to what was reported of it
Noted(v, h) ==
    CASE h.status = "stale" ->
             [stale |-> v.stale + 1, run |-> v.run + 1,
              k |-> IF v.k = 0 THEN h.views_left ELSE v.k,
              later |-> IF v.k = 0 THEN 0 ELSE v.later + 1,
              said |-> h.views_left]
      [] h.status = "expired" ->
             [stale |-> 0, run |-> 0, k |-> v.k,
              later |-> IF v.k = 0 THEN 0 ELSE v.later + 1, said |-> 0]
      [] h.status \in {"healthy", "degraded"} ->
             [stale |-> v.stale, run |-> 0, k |-> 0, later |-> 0, said |-> 0]
      [] OTHER -> NoViews

\* what is reported of every shard once a view returned entries
Reported(entries) ==
    [id \in IdSpace |->
        IF \E i \in 1..Len(entries) : entries[i].shard_id = id
        THEN Noted(Stored(views)[id],
                   entries[CHOOSE i \in 1..Len(entries) : entries[i].shard_id = id].health)
        ELSE Stored(views)[id]]

\* view_shards after the loop: last_viewed, then the deletions
view_finish(viewed_ids, loop) ==
    /\ response' = Response("view", 0, loop.entries)
    /\ views' = Reported(loop.entries)
    /\ store' = delete_many(IF viewed_ids # {}
                            THEN update_last_viewed(loop.shards, viewed_ids, now)
                            ELSE loop.shards,
                            loop.to_delete_now)

\* view_shards from the page on
view_page(page, loop) ==
    view_finish({page[i].id : i \in 1..Len(page)} \ loop.to_delete_now, loop)

\* view_shards from the matching shards on
view_matching(matching, limit, offset) ==
    IF matching = <<>>
    THEN /\ response' = Response("empty", 0, <<>>)
         /\ views' = Stored(views)
         /\ store' = store
    ELSE view_page(Page(SortByCreated(matching), offset,
                        IF limit # NoLimit THEN limit ELSE DEFAULT_LIMIT),
                   ViewLoop(Page(SortByCreated(matching), offset,
                                 IF limit # NoLimit THEN limit ELSE DEFAULT_LIMIT),
                            Len(Page(SortByCreated(matching), offset,
                                     IF limit # NoLimit THEN limit ELSE DEFAULT_LIMIT))))

\* the shards view_shards gathers
gather(tags, file) ==
    LET InFile(s) == s.file = file \/ _resolve_file_path(s.file) = _resolve_file_path(file)
    IN  IF tags # <<>>
        THEN IF file # NoFile THEN SelectSeq(get_by_tags(store, tags), InFile)
             ELSE get_by_tags(store, tags)
        ELSE IF get_by_file(store, file) # <<>> THEN get_by_file(store, file)
             ELSE get_by_file(store, _resolve_file_path(file))

\* no filter is required: the call goes on to gather and view
view_shards_unfiltered(tags, file, limit, offset) ==
    /\ view_matching(gather(tags, file), limit, offset)
    /\ UNCHANGED <<disk, now>>
    /\ UNCHANGED assessVars
    /\ UNCHANGED callVars

view_shards(tags, file, limit, offset) ==
    /\ IF tags = <<>> /\ file = NoFile
       THEN /\ response' = Response("error", 0, <<>>)
            /\ views' = Stored(views)
            /\ store' = store
       ELSE view_matching(gather(tags, file), limit, offset)
    /\ UNCHANGED <<disk, now>>
    /\ UNCHANGED assessVars
    /\ UNCHANGED callVars

\* the tools called, and the file edited, within one reading of the clock
Next ==
    \/ \E path \in DiskPaths, text \in FileTexts \cup {None} : EditFile(path, text)
    \/ \E file \in CreateFiles, a \in CreateArgs :
           create_shard(file, a.from_text, a.to_text, a.tags, a.summary)
    \/ \E a \in ViewArgs : view_shards(a.tags, a.file, a.limit, a.offset)

Spec == Init /\ [][Next]_vars

\* one region created, viewed and re-created while time passes
RefreshArgs == {a \in CreateArgs : a.from_text = <<"a">>}

NextRefresh ==
    \/ \E path \in DiskPaths, text \in FileTexts \cup {None} : EditFile(path, text)
    \/ Tick
    \/ \E file \in CreateFiles, a \in RefreshArgs :
           create_shard(file, a.from_text, a.to_text, a.tags, a.summary)
    \/ \E a \in {b \in ViewArgs : b.tags # <<>>} :
           view_shards(a.tags, a.file, a.limit, a.offset)

SpecRefresh == Init /\ [][NextRefresh]_vars

\* ------------------------------------------- the store's methods, called directly

StoreKeys == {<<"a.py", <<"a">>>>, <<"a.py", <<"b">>>>, <<"b.py", <<"a">>>>}

\* Shard(...) as a caller of the store builds it: a new id, no views
StoreShard(file, from_text) ==
    [id |-> NewId(store),
     file |-> file,
     anchor |-> ShardAnchor(from_text, <<"b">>, None, 1, 1),
     original_content |-> <<"a", "b">>,
     original_hash |-> hash_content(<<"a", "b">>),
     summary |-> None,
     tags |-> <<"t">>,
     created_at |-> now,
     updated_at |-> now,
     last_viewed |-> NoTime,
     stale_views |-> 0]

\* the store is written, r being what upsert returned
Upserted(r) ==
    /\ store' = r.shards
    /\ response' = Response(IF r.was_update THEN "updated" ELSE "created", r.shard.id, <<>>)

Upsert(file, from_text) ==
    /\ Upserted(upsert(store, StoreShard(file, from_text), now))
    /\ UNCHANGED <<disk, now, views>>
    /\ UNCHANGED assessVars
    /\ UNCHANGED callVars

IncrementStaleViews(shard_id) ==
    /\ \A i \in 1..Len(store) : store[i].stale_views < MaxStaleViews
    /\ store' = increment_stale_views(store, shard_id)
    /\ response' = Response("incremented", shard_id, <<>>)
    /\ UNCHANGED <<disk, now, views>>
    /\ UNCHANGED assessVars
    /\ UNCHANGED callVars

Delete(shard_id) ==
    /\ store' = delete(store, shard_id).shards
    /\ response' = Response(IF delete(store, shard_id).deleted THEN "deleted" ELSE "absent",
                            shard_id, <<>>)
    /\ UNCHANGED <<disk, now, views>>
    /\ UNCHANGED assessVars
    /\ UNCHANGED callVars

DeleteMany(shard_ids) ==
    /\ store' = delete_many(store, shard_ids)
    /\ response' = Response("deleted_many", Len(store) - Len(delete_many(store, shard_ids)), <<>>)
    /\ UNCHANGED <<disk, now, views>>
    /\ UNCHANGED assessVars
    /\ UNCHANGED callVars

StoreIds == 1..Cardinality(StoreKeys)

NextStore ==
    \/ \E k \in StoreKeys : Upsert(k[1], k[2])
    \/ \E id \in StoreIds : IncrementStaleViews(id)
    \/ \E id \in StoreIds : Delete(id)
    \/ \E ids \in SUBSET StoreIds : DeleteMany(ids)

\* an empty store, and no project file
InitStore ==
    /\ Init
    /\ \A path \in DiskPaths : disk[path] = None

SpecStore == InitStore /\ [][NextStore]_vars

\* ------------------------------------------- assess_shard on drawn inputs

AssessAlphabet == {"a", "b", "\n"}
AssessTexts == SeqsUpTo(AssessAlphabet, MaxLen)

\* the fingerprints a drawn record may hold: that of its own content, that of
\* the current content, and one that is not the current content's
Digests(original, cur) ==
    IF cur = None THEN {hash_content(original), (hash_content(original) + 1) % DigestSpace}
    ELSE {hash_content(original), hash_content(cur), (hash_content(cur) + 1) % DigestSpace}

InitAssess ==
    /\ \E o \in AssessTexts, c \in AssessTexts \cup {None}, n \in 0..MaxStaleViews :
           \E h \in Digests(o, c) :
               /\ shard = [original_content |-> o, original_hash |-> h, stale_views |-> n]
               /\ current = c
    /\ health = NoHealth
    /\ calls = <<>>
    /\ shardAfter = shard
    /\ disk = [path \in DiskPaths |-> None]
    /\ store = <<>>
    /\ now = 0
    /\ response = NoResponse
    /\ views = [id \in IdSpace |-> NoViews]
    /\ call = NoCall
    /\ returned = NotReturned
    /\ inflight = NoneInflight

Assess ==
    /\ health = NoHealth
    /\ LET r == assess_shard(shard, current)
       IN  /\ health' = r.health
           /\ calls' = r.calls
           /\ shardAfter' = r.shard
    /\ UNCHANGED <<shard, current>>
    /\ UNCHANGED serverVars
    /\ UNCHANGED callVars

NextAssess == Assess

SpecAssess == InitAssess /\ [][NextAssess]_vars

Assessed_ == health # NoHealth
Fresh == current # None /\ hash_content(current) # shard.original_hash
Drift == compute_health(shard.original_content, current)

C2_StaleOrExpired ==
    (Assessed_ /\ Fresh /\ Drift < 400) =>
        /\ (health.status = "stale") <=> (shard.stale_views < 2)
        /\ (health.status = "expired") <=> (shard.stale_views >= 2)

C2_Witness ==
    Assessed_ /\ Fresh /\ Drift < 400 /\ shard.stale_views = 2 /\ health.status = "expired"

\* C3: with absent content the verdict is broken with score 0.0 whatever the
\* record holds, and neither hash_content nor compute_health is called.
C3_Broken ==
    (Assessed_ /\ current = None) =>
        /\ health.status = "broken"
        /\ health.score = 0
        /\ calls = <<>>

C3_Witness ==
    /\ Assessed_ /\ current = None /\ health.status = "broken"
    /\ shard.stale_views >= 2 /\ shard.original_content # <<>>

\* C4: when the fingerprint of the content equals original_hash the verdict is
\* healthy with score 1.0 for every stale_views, compute_health is not called,
\* and the summary is trusted.
C4_Unchanged ==
    (Assessed_ /\ current # None /\ hash_content(current) = shard.original_hash) =>
        /\ health.status = "healthy"
        /\ health.score = 1000
        /\ should_show_summary(health)
        /\ calls = <<"hash_content">>

C4_Witness ==
    /\ Assessed_ /\ current # None /\ hash_content(current) = shard.original_hash
    /\ shard.stale_views >= 2 /\ Drift < 400 /\ health.status = "healthy"

\* C5: the summary is shown exactly for healthy; deletion is flagged exactly
\* for stale, expired and broken; the shard is deleted exactly for expired and
\* broken.  So a deleted shard is flagged, and none is both trusted and flagged.
C5_Actions ==
    Assessed_ =>
        /\ should_show_summary(health) <=> (health.status = "healthy")
        /\ should_flag_deletion(health) <=> (health.status \in {"stale", "expired", "broken"})
        /\ should_delete(health) <=> (health.status \in {"expired", "broken"})
        /\ should_delete(health) => should_flag_deletion(health)
        /\ ~(should_show_summary(health) /\ should_flag_deletion(health))
        /\ health.status \in {"healthy", "degraded", "stale", "expired", "broken"}

C5_Witness ==
    Assessed_ /\ health.status = "broken" /\ should_delete(health) /\ should_flag_deletion(health)

\* C6: assess_shard leaves the record as it was: stale_views, original_content
\* and original_hash after the call are those before it.
C6_RecordUnchanged ==
    Assessed_ => shardAfter = shard

C6_Witness ==
    Assessed_ /\ health.status = "stale" /\ shardAfter.stale_views = 1

\* --------------------------------------------- the store behind the tools

\* the stored shard of an id
ShardOf(shards, id) == shards[CHOOSE i \in 1..Len(shards) : shards[i].id = id]

\* what one view_shards call did to the viewed shard id, reported as status
ViewEffect(id, status) ==
    /\ id \in Ids(store)
    /\ (id \in Ids(store') /\ ShardOf(store', id).stale_views = ShardOf(store, id).stale_views + 1)
           <=> (status = "stale")
    /\ (id \notin Ids(store')) <=> (status \in {"expired", "broken"})
    /\ (id \in Ids(store') /\ ShardOf(store', id).stale_views = ShardOf(store, id).stale_views)
           <=> (status \in {"healthy", "degraded"})

RequestRegion(f, a) ==
    resolve_region(_resolve_file_path(f), a.from_text, a.to_text, None)

\* the shards create_shard can hand to upsert in this state
NewShards ==
    {new_shard(c[1], c[2].from_text, c[2].to_text, c[2].tags, c[2].summary,
               RequestRegion(c[1], c[2])) :
        c \in {d \in CreateFiles \X CreateArgs : RequestRegion(d[1], d[2]) # NoRegion}}

\* what upsert returned as r for the shard new, against the list it was given
Refreshed(shards, new, r) ==
    LET hits == {i \in 1..Len(shards) : shards[i].file = new.file
                                         /\ shards[i].anchor.from_text = new.anchor.from_text}
    IN  IF hits # {}
        THEN /\ r.was_update
             /\ Len(r.shards) = Len(shards)
             /\ \E i \in hits :
                    /\ \A j \in 1..Len(shards) : j # i => r.shards[j] = shards[j]
                    /\ r.shards[i].id = shards[i].id
                    /\ r.shards[i].created_at = shards[i].created_at
                    /\ r.shards[i].original_content = new.original_content
                    /\ r.shards[i].original_hash = new.original_hash
                    /\ r.shards[i].summary = new.summary
                    /\ r.shards[i].tags = new.tags
                    /\ r.shards[i].anchor = new.anchor
                    /\ r.shards[i].file = new.file
                    /\ r.shards[i].stale_views = 0
        ELSE /\ ~r.was_update
             /\ r.shards = Append(shards, new)

UniqueShards ==
    \A i, j \in 1..Len(store) :
        i # j => /\ ~matches_region(store[i], store[j].file, store[j].anchor.from_text)
                 /\ store[i].id # store[j].id

\* an upsert step that stored a shard whose key was stored before
ReCreated ==
    /\ response'.kind \in {"updated", "created"}
    /\ \E i \in 1..Len(store) :
           matches_region(store[i], ShardOf(store', response'.shard_id).file,
                          ShardOf(store', response'.shard_id).anchor.from_text)

\* C11: from an empty store, after any upsert, increment_stale_views, delete
\* and delete_many calls, no two stored shards have the same (file, from_text)
\* and no two the same id; an upsert for a key already stored does not add a
\* shard.
C11_UniqueKeys ==
    /\ []UniqueShards
    /\ [][ReCreated => Len(store') <= Len(store)]_vars

\* every key is stored, one was deleted and stored again, one refreshed
C11_Witness ==
    /\ Len(store) = Cardinality(StoreKeys)
    /\ response.kind = "updated"
    /\ \E i \in 1..Len(store) : store[i].id > i
    /\ \E i \in 1..Len(store) : store[i].stale_views > 0

\* every stored record's original_hash is the fingerprint of its original_content
HashOfContent ==
    \A i \in 1..Len(store) : store[i].original_hash = hash_content(store[i].original_content)

\* a view_shards step leaves the content and the hash of every shard it keeps
ViewKeepsContent ==
    response'.kind = "view" =>
        \A id \in Ids(store') :
            /\ id \in Ids(store)
            /\ ShardOf(store', id).original_content = ShardOf(store, id).original_content
            /\ ShardOf(store', id).original_hash = ShardOf(store, id).original_hash

\* C12: after any create_shard and view_shards calls every stored record has
\* original_hash = fingerprint(original_content); view_shards changes neither.
C12_HashOfContent ==
    /\ []HashOfContent
    /\ [][ViewKeepsContent]_vars

\* a shard re-created after its creation, with another content, then viewed stale
C12_Witness ==
    /\ response.kind = "view"
    /\ \E i \in 1..Len(store) :
           /\ store[i].created_at < store[i].updated_at
           /\ store[i].stale_views > 0
           /\ store[i].original_content # <<"a", "b">>

\* -------------------------------------------- resolve_region on drawn inputs

\* a file as Path.exists() and Path.read_text() find it
File(exists, error, content) == [exists |-> exists, error |-> error, content |-> content]
Missing == File(FALSE, NoError, <<>>)
Unreadable(error) == File(TRUE, error, <<>>)
Readable(content) == File(TRUE, NoError, content)

\* the exceptions of read_text that resolve_region catches
Caught == {"UnicodeDecodeError", "PermissionError"}
\* the exceptions read_text raises in the model: the two caught, and that of a
\* path that exists and is a directory
ReadErrors == Caught \cup {"IsADirectoryError"}

\* resolve_region on a file in any state
resolve_region_on(file, from_text, to_text, function_anchor) ==
    IF ~file.exists THEN Returned(NoRegion)
    ELSE IF file.error \in Caught THEN Returned(NoRegion)
    ELSE IF file.error # NoError THEN Raised(file.error)
    ELSE Returned(resolve_text(file.content, from_text, to_text, function_anchor))

def_f == <<"d", "e", "f", " ", "f", "(">>
ResolveLines == {def_f, <<" ">> \o def_f, <<" ", "a">>, <<"b">>, <<>>}
ShortFiles == {JoinLines(lines) : lines \in SeqsUpTo(ResolveLines, MaxLines)}

\* first, then " a" on every line up to LongLines lines
LongFile(first) ==
    JoinLines(<<first>> \o [i \in 1..(LongLines - 1) |-> <<" ", "a">>])
\* " a" on every line but the last, which is last
DeepFile(last) ==
    JoinLines([i \in 1..(LongLines - 1) |-> <<" ", "a">>] \o <<last>>)
\* "b" before and after a line " a", and " a" on every line after them
EchoFile ==
    JoinLines(<<<<"b">>, <<" ", "a">>, <<"b">>>> \o [i \in 1..(LongLines - 3) |-> <<" ", "a">>])
\* a definition, " a" on the k - 1 lines after it, and "b" k lines after it
ScanFile(k) ==
    JoinLines(<<def_f>> \o [i \in 1..(k - 1) |-> <<" ", "a">>] \o <<<<"b">>>>)
LongFiles == {LongFile(<<"b">>), LongFile(def_f), DeepFile(def_f), EchoFile,
              ScanFile(BLOCK_SCAN - 1), ScanFile(BLOCK_SCAN)}

FromTexts == {<<" ", "a", " ">>, <<>>, <<"z">>, <<"f", "(">>}
ToTexts == {<<"b">>, <<"z">>}
FunctionHints == {None, <<>>, <<"f">>, <<"g">>}
FileStates ==
    {Readable(content) : content \in ShortFiles \cup LongFiles}
        \cup {Missing} \cup {Unreadable(error) : error \in ReadErrors}

ResolveCall(file, from_text, to_text, function_anchor) ==
    [fn |-> "resolve_region", file |-> file, from_text |-> from_text, to_text |-> to_text,
     function_anchor |-> function_anchor]

InitResolve ==
    /\ disk = [path \in DiskPaths |-> None]
    /\ store = <<>>
    /\ now = 0
    /\ response = NoResponse
    /\ views = [id \in IdSpace |-> NoViews]
    /\ shard = [original_content |-> <<>>, original_hash |-> 0, stale_views |-> 0]
    /\ current = None
    /\ health = NoHealth
    /\ calls = <<>>
    /\ shardAfter = shard
    /\ returned = NotReturned
    /\ inflight = NoneInflight
    /\ call \in {ResolveCall(file, f, t, h) :
                    file \in FileStates, f \in FromTexts, t \in ToTexts, h \in FunctionHints}

ResolveRegion ==
    /\ call.fn = "resolve_region"
    /\ ~returned.done
    /\ returned' = resolve_region_on(call.file, call.from_text, call.to_text,
                                     call.function_anchor)
    /\ UNCHANGED <<call, inflight>>
    /\ UNCHANGED assessVars
    /\ UNCHANGED serverVars

NextResolve == ResolveRegion

SpecResolve == InitResolve /\ [][NextResolve]_vars

\* the call made, on a file that was read and has lines
Resolved ==
    /\ call.fn = "resolve_region"
    /\ returned.done
    /\ call.file.exists
    /\ call.file.error = NoError
    /\ call.file.content # <<>>

FileLines == SplitLines(call.file.content)

\* the lines (1-indexed) that hold the trimmed from_text
\* the numbers (1-indexed) of the lines that hold text
LinesHolding(lines, text) == {i \in 1..Len(lines) : Contains(lines[i], text)}

\* the numbers (1-indexed) of the lines whose detected construct name is name
LinesNamed(lines, name) == {i \in 1..Len(lines) : detect_function_name(lines[i]) = name}

DirectLines == LinesHolding(FileLines, Strip(call.from_text))

HintGiven == call.function_anchor # None /\ call.function_anchor # <<>>

\* the lines (1-indexed) whose detected construct name is the function hint
HintLines ==
    IF HintGiven
    THEN LinesNamed(FileLines, call.function_anchor)
    ELSE {}

First(S) == CHOOSE i \in S : \A j \in S : i <= j

Found == returned.raised = NoError /\ returned.value # NoRegion

\* text starts with line, and the line ends there
BeginsWithLine(text, line) ==
    /\ Len(text) >= Len(line)
    /\ SubSeq(text, 1, Len(line)) = line
    /\ Len(text) > Len(line) => text[Len(line) + 1] = "\n"

\* C13: direct search: when some line holds the trimmed from_text, resolve_region
\* succeeds, start_line is the number of the earliest such line whatever the
\* function hint and the later matching lines, and the content begins with it.
C13_DirectSearch ==
    Resolved /\ DirectLines # {} =>
        /\ Found
        /\ returned.value.start_line = First(DirectLines)
        /\ BeginsWithLine(returned.value.content, FileLines[First(DirectLines)])

\* several lines match, the first of them is not the first of the file, and the
\* hint names a construct on an earlier line
C13_Witness ==
    /\ Resolved
    /\ Cardinality(DirectLines) >= 2
    /\ HintLines # {}
    /\ First(HintLines) < First(DirectLines)
    /\ returned.value.start_line = First(DirectLines)

\* C14: construct-hint fallback: when no line holds from_text but the function
\* hint is given and is the detected name of some line, resolve_region succeeds
\* and start_line lies from 5 lines before that line to that line.
C14_HintFallback ==
    Resolved /\ DirectLines = {} /\ HintLines # {} =>
        /\ Found
        /\ returned.value.start_line >= First(HintLines) - HINT_BACK
        /\ returned.value.start_line <= First(HintLines)

\* the construct stands more than 5 lines down the file
C14_Witness ==
    /\ Resolved
    /\ DirectLines = {}
    /\ HintLines # {}
    /\ First(HintLines) > HINT_BACK + 1
    /\ Found
    /\ returned.value.start_line = First(HintLines)

\* C15: on a readable, non-empty file resolve_region returns not-found exactly
\* when no line holds the trimmed from_text and the function hint is absent,
\* empty or the detected name of no line.
C15_NotFound ==
    Resolved =>
        /\ returned.raised = NoError
        /\ returned.value = NoRegion <=> DirectLines = {} /\ HintLines = {}

\* not found with a hint that names no construct of a file that has constructs
C15_Witness ==
    /\ Resolved
    /\ returned.value = NoRegion
    /\ HintGiven
    /\ \E i \in 1..Len(FileLines) : detect_function_name(FileLines[i]) # None

\* C16: once a start line exists resolve_region does not fail: the region has
\* 1 <= start_line <= end_line <= number of lines and its content is the
\* lines start_line..end_line joined with newlines, whatever produced the end.
C16_RegionBounds ==
    Resolved /\ (DirectLines # {} \/ HintLines # {}) =>
        /\ Found
        /\ 1 <= returned.value.start_line
        /\ returned.value.start_line <= returned.value.end_line
        /\ returned.value.end_line <= Len(FileLines)
        /\ returned.value.content =
               JoinLines(SubSeq(FileLines, returned.value.start_line, returned.value.end_line))

\* the last-resort window: the end is 20 lines after the start, before the last line
C16_Witness ==
    /\ Resolved
    /\ Found
    /\ returned.value.start_line > 1
    /\ returned.value.end_line = returned.value.start_line + WINDOW
    /\ returned.value.end_line < Len(FileLines)
    /\ detect_function_name(FileLines[returned.value.start_line]) = None

\* the call made, on a file that cannot be read as text
NotReadable ==
    /\ call.fn = "resolve_region"
    /\ returned.done
    /\ \/ ~call.file.exists
       \/ call.file.error # NoError
       \/ call.file.content = <<>>

\* C17: for every state in which the file cannot be read as text (missing,
\* empty, undecodable, permission denied, any other read failure)
\* resolve_region returns not-found as a value and does not raise.
C17_NeverRaises ==
    NotReadable => returned.raised = NoError /\ returned.value = NoRegion

\* -------------------------------------------- compute_health on drawn inputs

HealthAlphabet == {"a", " ", "\n"}
HealthTexts == SeqsUpTo(HealthAlphabet, MaxLen)

HealthCall(original, cur) ==
    [fn |-> "compute_health", original |-> original, current |-> cur]

InitHealth ==
    /\ disk = [path \in DiskPaths |-> None]
    /\ store = <<>>
    /\ now = 0
    /\ response = NoResponse
    /\ views = [id \in IdSpace |-> NoViews]
    /\ shard = [original_content |-> <<>>, original_hash |-> 0, stale_views |-> 0]
    /\ current = None
    /\ health = NoHealth
    /\ calls = <<>>
    /\ shardAfter = shard
    /\ returned = NotReturned
    /\ inflight = NoneInflight
    /\ call \in {HealthCall(o, c) : o \in HealthTexts, c \in HealthTexts}

ComputeHealth ==
    /\ call.fn = "compute_health"
    /\ ~returned.done
    /\ returned' = Returned(compute_health(call.original, call.current))
    /\ UNCHANGED <<call, inflight>>
    /\ UNCHANGED assessVars
    /\ UNCHANGED serverVars

NextHealth == ComputeHealth

SpecHealth == InitHealth /\ [][NextHealth]_vars

Scored == call.fn = "compute_health" /\ returned.done

\* C18: compute_health(s, s) = 1.0 for every s, the empty string included, and
\* compute_health(s1, "") = compute_health("", s1) = 0.0 for every non-empty s1:
\* the identity check comes before the emptiness check.
C18_IdentityAndEmpty ==
    Scored =>
        /\ call.original = call.current => returned.value = 1000
        /\ call.original # <<>> /\ call.current = <<>> => returned.value = 0
        /\ call.original = <<>> /\ call.current # <<>> => returned.value = 0

\* two empty strings score 1.0
C18_Witness ==
    /\ Scored
    /\ call.original = <<>>
    /\ call.current = <<>>
    /\ returned.value = 1000

\* the lines of a text that are not blank, each trimmed
TrimmedLines(text) ==
    LET kept == SelectSeq(SplitLines(text), NonBlank)
    IN  [i \in 1..Len(kept) |-> Strip(kept[i])]

\* the two texts of the call differ, and only in blank lines or in the
\* whitespace around their lines
WhitespaceOnly ==
    /\ call.original # call.current
    /\ TrimmedLines(call.original) = TrimmedLines(call.current)

\* C19 as stated: texts that differ only in blank lines or in leading/trailing
\* whitespace per line score 0.99, for all such pairs.
C19_WhitespaceOnly ==
    Scored /\ WhitespaceOnly => returned.value = 990

\* C19: two non-empty texts that differ only in blank lines or in
\* leading/trailing whitespace per line score 0.99; when one of the two is the
\* empty string the score is 0.0.
C19_WhitespaceOnlyNonEmpty ==
    Scored /\ WhitespaceOnly =>
        returned.value = IF call.original = <<>> \/ call.current = <<>> THEN 0 ELSE 990

\* a text with letters against one with a blank line and an indented line more
C19_Witness ==
    /\ Scored
    /\ WhitespaceOnly
    /\ returned.value = 990
    /\ TrimmedLines(call.original) # <<>>
    /\ Len(SplitLines(call.original)) < Len(SplitLines(call.current))
    /\ SelectSeq(SplitLines(call.original), NonBlank)
           # SelectSeq(SplitLines(call.current), NonBlank)

\* a step that is view_shards called without tags and without file
ViewNoFilter ==
    \E limit \in {NoLimit, 1}, offset \in {0, 1} : view_shards(<<>>, NoFile, limit, offset)

Region == Resolved /\ Found

\* the lines (1-indexed) that hold the trimmed to_text
ToLines == LinesHolding(FileLines, Strip(call.to_text))

\* those of them at or after the start line of the region returned
ToLinesFromStart == {i \in ToLines : i >= returned.value.start_line}

\* C21: end search: the search for to_text starts at the start line itself and
\* scans forward; when a line at or after the start holds the trimmed to_text,
\* end_line is the first such line (it may be the start line), whatever block-end
\* inference or the window would give, and never a line before the start.
C21_EndSearch ==
    Region /\ ToLinesFromStart # {} =>
        /\ returned.value.end_line = First(ToLinesFromStart)
        /\ returned.value.end_line >= returned.value.start_line

\* to_text stands before the start and after it, and the end is after the start
C21_Witness ==
    /\ Region
    /\ \E i \in ToLines : i < returned.value.start_line
    /\ ToLinesFromStart # {}
    /\ returned.value.end_line > returned.value.start_line
    /\ returned.value.end_line < Len(FileLines)
    /\ returned.value.end_line = First(ToLinesFromStart)

\* a region returned whose start line is a definition and with to_text on no
\* line from the start on
BlockCase ==
    /\ Region
    /\ ToLinesFromStart = {}
    /\ detect_function_name(FileLines[returned.value.start_line]) # None

\* the distances k <= scan from the start line to the non-blank lines after it
\* that are indented no more than it
Dedents(scan) ==
    LET lines == FileLines
        start == returned.value.start_line
    IN  {k \in 1..scan :
            /\ start + k <= Len(lines)
            /\ NonBlank(lines[start + k])
            /\ Indent(lines[start + k]) <= Indent(lines[start])}

\* the end line block-end inference gives when it scans scan lines after the start
BlockEnd(scan) ==
    IF Dedents(scan) # {}
    THEN returned.value.start_line + First(Dedents(scan)) - 1
    ELSE Min(returned.value.start_line + BLOCK_DEFAULT, Len(FileLines))

\* C22 as stated: the scan covers the 200 lines after the start line: a first
\* dedented line k lines after the start, 1 <= k <= 200, ends the region on the
\* line before it, and without one the end is start + 50 clamped to the last line.
C22_BlockEnd200 ==
    BlockCase => returned.value.end_line = BlockEnd(BLOCK_SCAN)

\* C22: the scan covers the 199 lines after the start line: a first dedented
\* line k lines after the start, 1 <= k <= 199, ends the region on the line
\* before it (start + k - 1), and without one within those 199 lines the end is
\* start + 50 clamped to the last line of the file.
C22_BlockEnd199 ==
    BlockCase => returned.value.end_line = BlockEnd(BLOCK_SCAN - 1)

\* the block closed by the last line the scan reaches, 199 lines after the start
C22_Witness ==
    /\ BlockCase
    /\ Dedents(BLOCK_SCAN) # {}
    /\ First(Dedents(BLOCK_SCAN)) = BLOCK_SCAN - 1
    /\ returned.value.end_line = returned.value.start_line + BLOCK_SCAN - 2

\* a region returned whose start line is no definition and with to_text on no
\* line from the start on
WindowCase ==
    /\ Region
    /\ ToLinesFromStart = {}
    /\ detect_function_name(FileLines[returned.value.start_line]) = None

\* C23: last-resort window: when no line at or after the start holds to_text and
\* the start line is not recognized as a definition, end_line is
\* min(start + 20, last line of the file), so the region has at most 21 lines.
C23_Window ==
    WindowCase =>
        /\ returned.value.end_line = Min(returned.value.start_line + WINDOW, Len(FileLines))
        /\ returned.value.end_line - returned.value.start_line + 1 <= WINDOW + 1

\* a region of 21 lines in a file that goes on after it and holds no to_text
C23_Witness ==
    /\ WindowCase
    /\ ToLines = {}
    /\ returned.value.end_line - returned.value.start_line + 1 = WINDOW + 1
    /\ returned.value.end_line < Len(FileLines)

\* C24: the function anchor of a resolved region is the caller's function hint
\* whenever one is present, even when the direct search placed the start on
\* another construct or on a line that is no definition, and otherwise the
\* detected name of the start line, absent when that line is no definition.
C24_FunctionAnchor ==
    Region =>
        returned.value.function_anchor =
            IF HintGiven THEN call.function_anchor
            ELSE detect_function_name(FileLines[returned.value.start_line])

\* the hint names a construct the file does not hold, and the start line found
\* by the direct search is the definition of another one
C24_Witness ==
    /\ Region
    /\ HintGiven
    /\ HintLines = {}
    /\ detect_function_name(FileLines[returned.value.start_line]) # None
    /\ returned.value.function_anchor = call.function_anchor

\* a shard stored with stale_views = 2 is, after the step, deleted, refreshed
\* or stored with the same count
FullCountStays ==
    \A id \in Ids(store) :
        ShardOf(store, id).stale_views = 2 /\ id \in Ids(store') =>
            ShardOf(store', id).stale_views \in {0, 2}

\* C25: from an empty store, after any create_shard and view_shards calls
\* every stored shard has 0 <= stale_views <= 2: a shard with stale_views = 2
\* is not incremented again, a further view with drift below 0.4 deletes it.
C25_StaleViewsRange ==
    /\ [](\A i \in 1..Len(store) : store[i].stale_views \in 0..2)
    /\ [][FullCountStays]_vars

\* a view that found a shard with stale_views = 2 expired and deleted it
C25_Witness ==
    /\ response.kind = "view"
    /\ \E i \in 1..Len(response.entries) :
           /\ response.entries[i].health.status = "expired"
           /\ response.entries[i].shard_id \notin Ids(store)

\* the construct-hint fallback supplies the start line: the direct search over
\* the whole file found nothing and the hint names a line
FallbackCase == Resolved /\ DirectLines = {} /\ HintLines # {}

\* C26: whenever the construct-hint fallback supplies the start line, the re-run
\* of the direct search from 5 lines before the construct finds nothing, and
\* start_line is exactly the line of the first definition whose detected name is
\* the function hint, none of the 5 lines before it and no later line.
C26_FallbackStart ==
    FallbackCase =>
        /\ Found
        /\ find_text_in_lines(FileLines, call.from_text,
                              Max(0, First(HintLines) - 1 - HINT_BACK)) = NoLine
        /\ returned.value.start_line = First(HintLines)

\* two definitions carry the name and lines stand before the first of them
C26_Witness ==
    /\ FallbackCase
    /\ Cardinality(HintLines) >= 2
    /\ First(HintLines) > 1
    /\ returned.value.start_line = First(HintLines)

\* ------------------------------------------ storage.py, concurrent callers

\* the store the callers find: two shards of one file, each viewed stale once
ConcShard(id, from_text) ==
    [id |-> id,
     file |-> "a.py",
     anchor |-> ShardAnchor(from_text, <<"b">>, None, 1, 1),
     original_content |-> <<"a", "b">>,
     original_hash |-> hash_content(<<"a", "b">>),
     summary |-> None,
     tags |-> <<"t">>,
     created_at |-> 0,
     updated_at |-> 0,
     last_viewed |-> NoTime,
     stale_views |-> 1]
ConcStore == <<ConcShard(1, <<"a">>), ConcShard(2, <<"b">>)>>

\* the shard a caller hands to upsert to refresh the region of shard shard_id
\* (Shard() gives it an id of its own, which upsert replaces)
RefreshOf(shard_id) ==
    [ConcShard(shard_id, ConcStore[shard_id].anchor.from_text)
        EXCEPT !.id = Len(ConcStore) + shard_id,
               !.original_content = <<"a", "c">>,
               !.original_hash = hash_content(<<"a", "c">>),
               !.stale_views = 0]

StoreOps == {"upsert", "increment_stale_views", "delete", "delete_many"}

\* the list a method writes back, computed from the list shards it read
Written(op, shard_id, shards) ==
    CASE op = "upsert" -> upsert(shards, RefreshOf(shard_id), now).shards
      [] op = "increment_stale_views" -> increment_stale_views(shards, shard_id)
      [] op = "delete" -> delete(shards, shard_id).shards
      [] op = "delete_many" -> delete_many(shards, {shard_id})

\* each caller runs one method, on a record of its own
InitConcurrent ==
    /\ disk = [path \in DiskPaths |-> None]
    /\ store = ConcStore
    /\ now = 0
    /\ response = NoResponse
    /\ views = [id \in IdSpace |-> NoViews]
    /\ shard = [original_content |-> <<>>, original_hash |-> 0, stale_views |-> 0]
    /\ current = None
    /\ health = NoHealth
    /\ calls = <<>>
    /\ shardAfter = shard
    /\ call = NoCall
    /\ returned = NotReturned
    /\ inflight \in {[p \in Callers |->
                         [op |-> ops[p], shard_id |-> p, pc |-> "start", shards |-> <<>>]] :
                     ops \in [Callers -> StoreOps]}

\* shards = self._read_shards()
ReadShards(p) ==
    /\ inflight[p].pc = "start"
    /\ inflight' = [inflight EXCEPT ![p].pc = "read", ![p].shards = store]
    /\ UNCHANGED <<call, returned>>
    /\ UNCHANGED assessVars
    /\ UNCHANGED serverVars

\* self._write_shards(shards), with the list the method made of what it read
WriteShards(p) ==
    /\ inflight[p].pc = "read"
    /\ store' = Written(inflight[p].op, inflight[p].shard_id, inflight[p].shards)
    /\ inflight' = [inflight EXCEPT ![p].pc = "done"]
    /\ UNCHANGED <<disk, now, response, views>>
    /\ UNCHANGED <<call, returned>>
    /\ UNCHANGED assessVars

NextConcurrent ==
    \/ \E p \in Callers : ReadShards(p)
    \/ \E p \in Callers : WriteShards(p)

SpecConcurrent == InitConcurrent /\ [][NextConcurrent]_vars

\* every caller has returned
AllDone == \A p \in Callers : inflight[p].op # "none" /\ inflight[p].pc = "done"

\* the store after the method of caller p, then that of caller q, run one
\* after the other on the store the callers found
Serial(p, q) ==
    Written(inflight[q].op, inflight[q].shard_id,
            Written(inflight[p].op, inflight[p].shard_id, ConcStore))

\* C27: store operations are atomic with respect to one another: under any
\* interleaving of the read and write steps of concurrent upsert,
\* increment_stale_views, delete and delete_many calls on different records the
\* final store is that of some serial order of the calls.
C27_Serializable ==
    AllDone => store \in {Serial(1, 2), Serial(2, 1)}

====
